---------------------------- MODULE Spec2Model ----------------------------
(***************************************************************************)
(* A model of the TZif decoder and transition query of libtzfile           *)
(* (src/src/lib.rs): Tz::new = parse_header ; parse_data, then             *)
(* Tz::transition_times and Tz::zoneinfo on the decoded zone.              *)
(*                                                                         *)
(* Representation of machine integers.  TLC's integers are 32 bits wide,   *)
(* so:                                                                     *)
(*   - an i32 is its value;                                                *)
(*   - a usize u is the integer congruent to u modulo 2^64 that lies in    *)
(*     -2^63 .. 2^63-1 (a negative representative r stands for the usize   *)
(*     2^64 + r >= 2^63); wrapping arithmetic is then plain arithmetic,    *)
(*     and the inputs keep every magnitude far below 2^31;                 *)
(*   - an i64 is the tuple <<l3, l2, l1, l0>> of its four 16-bit limbs,    *)
(*     most significant first, l3 signed (-32768..32767) and the others    *)
(*     unsigned (0..65535): value = ((l3*2^16 + l2)*2^16 + l1)*2^16 + l0;  *)
(*   - a u32 is the pair <<h, l>> of its two unsigned 16-bit halves;       *)
(*   - a char is its Unicode code point, a string a sequence of chars.     *)
(***************************************************************************)
EXTENDS Integers, Sequences, FiniteSets, TLC

VARIABLES
    buffer,          \* the bytes Tz::read returned (a sequence of 0..255)
    filename,        \* the path given to Tz::new (a string)
    overflow_checks, \* whether the build panics on usize overflow (debug) or wraps (release)
    pc,              \* position in Tz::new: "parse_header", "parse_data", "done"
    header,          \* the Header parse_header returned
    result,          \* the outcome of Tz::new: kind "None" (running), "Ok", "Err", "Panic"
    query,           \* the transition_times call made on the decoded zone and its outcome
    info             \* the zoneinfo call made on the decoded zone and its outcome

vars == <<buffer, filename, overflow_checks, pc, header, result, query, info>>

---------------------------------------------------------------------------
(* Program constants.                                                      *)

\* const MAGIC: u32 = 0x545A6966, as the halves 0x545A and 0x6966.
MAGIC == <<21594, 26982>>

\* const HEADER_LEN: usize = 0x2C
HEADER_LEN == 44

\* if buffer[4] != 50
VERSION_2 == 50

---------------------------------------------------------------------------
(* Byte access and the byteorder crate's big-endian readers.               *)

\* buffer[i], i a 0-based index that is in range.
At(buf, i) == buf[i + 1]

\* Whether the range a..b (half-open, 0-based, usize representatives) of a
\* slice of length len can be taken; taking it panics otherwise.
RangeOk(len, a, b) == 0 <= a /\ a <= b /\ b <= len

\* &buf[a..b] for a range that is in bounds.
Slice(buf, a, b) == [k \in 1..(b - a) |-> buf[a + k]]

\* BE::read_u32 of the 4 bytes at 0-based offset o.
ReadU32(buf, o) ==
    <<At(buf, o) * 256 + At(buf, o + 1), At(buf, o + 2) * 256 + At(buf, o + 3)>>

\* BE::read_i32 of the 4 bytes at 0-based offset o: two's complement.
ReadI32(buf, o) ==
    (IF At(buf, o) >= 128 THEN At(buf, o) - 256 ELSE At(buf, o)) * 16777216
        + At(buf, o + 1) * 65536 + At(buf, o + 2) * 256 + At(buf, o + 3)

\* BE::read_i64 of the 8 bytes at 0-based offset o, as four limbs.
ReadI64(buf, o) ==
    << (IF At(buf, o) >= 128 THEN At(buf, o) - 256 ELSE At(buf, o)) * 256 + At(buf, o + 1),
       At(buf, o + 2) * 256 + At(buf, o + 3),
       At(buf, o + 4) * 256 + At(buf, o + 5),
       At(buf, o + 6) * 256 + At(buf, o + 7) >>

\* `v as usize` for an i32 v: sign extension, so a negative v becomes the
\* usize 2^64 + v, whose representative is v itself.
AsUsize(v) == v

\* `v as isize` for an i32 v keeps the value.
AsIsize(v) == v

---------------------------------------------------------------------------
(* usize arithmetic on representatives.  With overflow checks the build    *)
(* panics when the true result leaves 0 .. 2^64-1; without, it wraps.      *)

\* a * k for a small constant k >= 2: the true product of a usize >= 2^63 is >= 2^64.
MulOverflows(a, k) == a < 0 /\ k >= 2

\* a + b: two usize below 2^63 never overflow, two at or above it always do,
\* and one of each overflows exactly when the sum wraps past 2^64.
AddOverflows(a, b) ==
    IF a < 0 /\ b < 0 THEN TRUE
    ELSE IF a >= 0 /\ b >= 0 THEN FALSE
    ELSE a + b >= 0

RECURSIVE SumOverflows(_, _)
\* Whether adding the terms of seq, left to right onto acc, overflows.
SumOverflows(acc, seq) ==
    IF seq = <<>> THEN FALSE
    ELSE AddOverflows(acc, Head(seq)) \/ SumOverflows(acc + Head(seq), Tail(seq))

---------------------------------------------------------------------------
(* Outcomes.                                                               *)

NoHeader ==
    [tzh_ttisgmtcnt |-> 0, tzh_ttisstdcnt |-> 0, tzh_leapcnt |-> 0,
     tzh_timecnt |-> 0, tzh_typecnt |-> 0, tzh_charcnt |-> 0, v2_header_start |-> 0]

NoTz ==
    [tzh_timecnt_data |-> <<>>, tzh_timecnt_indices |-> <<>>, tzh_typecnt |-> <<>>,
     tz_abbr |-> <<>>, name |-> <<>>]

Ok(v) == [kind |-> "Ok", err |-> "", val |-> v]
Err(e, none) == [kind |-> "Err", err |-> e, val |-> none]
Panic(none) == [kind |-> "Panic", err |-> "", val |-> none]
Running(none) == [kind |-> "None", err |-> "", val |-> none]

---------------------------------------------------------------------------
(* Tz::parse_header                                                        *)

\* The six counts read at base offset s, each `BE::read_i32(..) as usize`.
ReadCounts(buf, s) ==
    [tzh_ttisgmtcnt |-> AsUsize(ReadI32(buf, s + 20)),
     tzh_ttisstdcnt |-> AsUsize(ReadI32(buf, s + 24)),
     tzh_leapcnt    |-> AsUsize(ReadI32(buf, s + 28)),
     tzh_timecnt    |-> AsUsize(ReadI32(buf, s + 32)),
     tzh_typecnt    |-> AsUsize(ReadI32(buf, s + 36)),
     tzh_charcnt    |-> AsUsize(ReadI32(buf, s + 40))]

\* The terms of the sum that gives s, in the order the code adds them.
V2StartTerms(c) ==
    <<c.tzh_timecnt * 5, c.tzh_typecnt * 6, c.tzh_leapcnt * 8,
      c.tzh_charcnt, c.tzh_ttisstdcnt, c.tzh_ttisgmtcnt, HEADER_LEN>>

\* Whether computing s overflows a usize.
V2StartOverflows(c) ==
    \/ MulOverflows(c.tzh_timecnt, 5)
    \/ MulOverflows(c.tzh_typecnt, 6)
    \/ MulOverflows(c.tzh_leapcnt, 8)
    \/ SumOverflows(Head(V2StartTerms(c)), Tail(V2StartTerms(c)))

\* s: V2 format data start.
V2Start(c) ==
    c.tzh_timecnt * 5 + c.tzh_typecnt * 6 + c.tzh_leapcnt * 8
        + c.tzh_charcnt + c.tzh_ttisstdcnt + c.tzh_ttisgmtcnt + HEADER_LEN

\* A magic test that looks at the first two bytes only.
BadMagic_HalfTag(buf) == ReadU32(buf, 0)[1] # MAGIC[1]

\* The magic test: the first check of parse_header.
BadMagic(buf) == ReadU32(buf, 0) # MAGIC

\* A version test that lets '3' through as well.
BadVersion_AcceptV3(buf) == At(buf, 4) # VERSION_2 /\ At(buf, 4) # VERSION_2 + 1

\* The version test: the second check of parse_header.
BadVersion(buf) == At(buf, 4) # VERSION_2

\* A second read that returns the counts of the first pass.
SecondRead_FirstCounts(buf, oc, s) ==
    IF oc /\ s < 0 /\ s + 44 >= 0 THEN Panic(NoHeader)
    ELSE IF ~RangeOk(Len(buf), s + 20, s + 44) THEN Panic(NoHeader)
    ELSE Ok(ReadCounts(buf, 0) @@ [v2_header_start |-> s])

\* The second read: the six counts at s+0x14 .. s+0x2b, and s itself.
\* s + 0x14 (and the end of the inclusive range, s + 0x2b + 1) overflow only
\* for s within 44 of 2^64, i.e. a representative in -44 .. -1.
SecondRead(buf, oc, s) ==
    IF oc /\ s < 0 /\ s + 44 >= 0 THEN Panic(NoHeader)
    ELSE IF ~RangeOk(Len(buf), s + 20, s + 44) THEN Panic(NoHeader)
    ELSE Ok(ReadCounts(buf, s) @@ [v2_header_start |-> s])

\* parse_header(buffer), in a build with (oc) or without overflow checks.
ParseHeaderResult(buf, oc) ==
    IF Len(buf) < 4 THEN Panic(NoHeader)                    \* &buffer[0x00..=0x03]
    ELSE IF BadMagic(buf) THEN Err("InvalidMagic", NoHeader)
    ELSE IF Len(buf) < 5 THEN Panic(NoHeader)               \* buffer[4]
    ELSE IF BadVersion(buf) THEN Err("UnsupportedFormat", NoHeader)
    ELSE IF Len(buf) < HEADER_LEN THEN Panic(NoHeader)      \* &buffer[0x14..=0x17] .. [0x28..=0x2b]
    ELSE IF oc /\ V2StartOverflows(ReadCounts(buf, 0)) THEN Panic(NoHeader)
    ELSE SecondRead(buf, oc, V2Start(ReadCounts(buf, 0)))

---------------------------------------------------------------------------
(* std::str::from_utf8 and the str methods parse_data uses.                *)

\* A UTF-8 continuation byte.
IsCont(b) == b >= 128 /\ b <= 191

\* The number of bytes of the well-formed UTF-8 sequence that starts bytes
\* (non-empty), or 0 when bytes starts with none (Unicode Table 3-7, which
\* from_utf8 enforces: no overlong form, no surrogate, nothing above U+10FFFF).
Utf8Width(bytes) ==
    LET n == Len(bytes)
        b1 == bytes[1]
        c(i) == n >= i /\ IsCont(bytes[i])
    IN  IF b1 < 128 THEN 1
        ELSE IF b1 >= 194 /\ b1 <= 223 THEN (IF c(2) THEN 2 ELSE 0)
        ELSE IF b1 = 224 THEN (IF c(2) /\ bytes[2] >= 160 /\ c(3) THEN 3 ELSE 0)
        ELSE IF b1 = 237 THEN (IF c(2) /\ bytes[2] <= 159 /\ c(3) THEN 3 ELSE 0)
        ELSE IF b1 >= 225 /\ b1 <= 239 THEN (IF c(2) /\ c(3) THEN 3 ELSE 0)
        ELSE IF b1 = 240 THEN (IF c(2) /\ bytes[2] >= 144 /\ c(3) /\ c(4) THEN 4 ELSE 0)
        ELSE IF b1 = 244 THEN (IF c(2) /\ bytes[2] <= 143 /\ c(3) /\ c(4) THEN 4 ELSE 0)
        ELSE IF b1 >= 241 /\ b1 <= 243 THEN (IF c(2) /\ c(3) /\ c(4) THEN 4 ELSE 0)
        ELSE 0

\* The code point of the well-formed sequence of w bytes that starts bytes.
Utf8Char(bytes, w) ==
    IF w = 1 THEN bytes[1]
    ELSE IF w = 2 THEN (bytes[1] - 192) * 64 + (bytes[2] - 128)
    ELSE IF w = 3 THEN ((bytes[1] - 224) * 64 + (bytes[2] - 128)) * 64 + (bytes[3] - 128)
    ELSE (((bytes[1] - 240) * 64 + (bytes[2] - 128)) * 64 + (bytes[3] - 128)) * 64
             + (bytes[4] - 128)

RECURSIVE Utf8Valid(_)
\* Whether from_utf8(bytes) is Ok.
Utf8Valid(bytes) ==
    IF bytes = <<>> THEN TRUE
    ELSE LET w == Utf8Width(bytes)
         IN  w > 0 /\ Utf8Valid(SubSeq(bytes, w + 1, Len(bytes)))

RECURSIVE Chars(_)
\* str::chars() of a valid UTF-8 byte string: its code points in order.
Chars(bytes) ==
    IF bytes = <<>> THEN <<>>
    ELSE LET w == Utf8Width(bytes)
         IN  <<Utf8Char(bytes, w)>> \o Chars(SubSeq(bytes, w + 1, Len(bytes)))

\* .take(n) of an iterator over seq.
Take(seq, n) == SubSeq(seq, 1, IF n < Len(seq) THEN n ELSE Len(seq))

RECURSIVE CountOf(_, _)
\* .filter(|x| *x == c).count()
CountOf(seq, c) ==
    IF seq = <<>> THEN 0
    ELSE (IF Head(seq) = c THEN 1 ELSE 0) + CountOf(Tail(seq), c)

RECURSIVE SplitFrom(_, _, _)
\* The pieces of str split at each sep, cur being the piece under construction.
SplitFrom(str, sep, cur) ==
    IF str = <<>> THEN <<cur>>
    ELSE IF Head(str) = sep THEN <<cur>> \o SplitFrom(Tail(str), sep, <<>>)
    ELSE SplitFrom(Tail(str), sep, Append(cur, Head(str)))

\* str.split(sep).collect() for a one-char separator: always at least one piece.
Split(str, sep) == SplitFrom(str, sep, <<>>)

\* Vec::pop: the vector without its last element, and whether there was one.
Pop(vec) ==
    IF vec = <<>> THEN [some |-> FALSE, rest |-> <<>>]
    ELSE [some |-> TRUE, rest |-> SubSeq(vec, 1, Len(vec) - 1)]

\* `n as u8` for a usize n >= 0.
AsU8(n) == n % 256

NUL == 0
SLASH == 47
\* "zoneinfo"
ZONEINFO == <<122, 111, 110, 101, 105, 110, 102, 111>>

---------------------------------------------------------------------------
(* Tz::parse_data                                                          *)

\* A transition field that leaves out the one-byte type indices.
tzh_timecnt_len_NoIndices(h) == h.tzh_timecnt * 8

\* Field lengths and ends (Version 2 format), as the code computes them.
tzh_timecnt_len(h) == h.tzh_timecnt * 9
tzh_typecnt_len(h) == h.tzh_typecnt * 6
tzh_leapcnt_len(h) == h.tzh_leapcnt * 12
tzh_charcnt_len(h) == h.tzh_charcnt
DataStart(h) == HEADER_LEN + h.v2_header_start
tzh_timecnt_end(h) == DataStart(h) + tzh_timecnt_len(h)
tzh_typecnt_end(h) == tzh_timecnt_end(h) + tzh_typecnt_len(h)
tzh_leapcnt_end(h) == tzh_typecnt_end(h) + tzh_leapcnt_len(h)
tzh_charcnt_end(h) == tzh_leapcnt_end(h) + tzh_charcnt_len(h)
\* The end of the timestamps: HEADER_LEN + header.v2_header_start + header.tzh_timecnt * 8
TimesEnd(h) == DataStart(h) + h.tzh_timecnt * 8

\* Whether any usize operation of parse_data overflows.
DataOverflows(h) ==
    \/ MulOverflows(h.tzh_timecnt, 9)
    \/ MulOverflows(h.tzh_typecnt, 6)
    \/ MulOverflows(h.tzh_leapcnt, 12)
    \/ AddOverflows(HEADER_LEN, h.v2_header_start)
    \/ AddOverflows(DataStart(h), tzh_timecnt_len(h))
    \/ AddOverflows(tzh_timecnt_end(h), tzh_typecnt_len(h))
    \/ AddOverflows(tzh_typecnt_end(h), tzh_leapcnt_len(h))
    \/ AddOverflows(tzh_leapcnt_end(h), tzh_charcnt_len(h))
    \/ MulOverflows(h.tzh_timecnt, 8)
    \/ AddOverflows(DataStart(h), h.tzh_timecnt * 8)

\* .chunks_exact(8).map(|tt| BE::read_i64(tt)).collect() of the slice a..b.
TimecntData(buf, a, b) == [i \in 1..((b - a) \div 8) |-> ReadI64(buf, a + 8 * (i - 1))]

\* The index a Ttinfo gets: the NULs among the first `offset` chars of abbrs.
AbbrIndex(abbrs, offset) == AsU8(CountOf(Take(abbrs, offset), NUL))

\* One Ttinfo, from the 6-byte chunk at 0-based offset o.
TtinfoAt(buf, o, abbrs) ==
    [tt_gmtoff  |-> AsIsize(ReadI32(buf, o)),
     tt_isdst   |-> At(buf, o + 4),
     tt_abbrind |-> AbbrIndex(abbrs, At(buf, o + 5))]

\* .chunks_exact(6).map(..).collect() of the slice a..b.
Typecnt(buf, a, b, abbrs) ==
    [j \in 1..((b - a) \div 6) |-> TtinfoAt(buf, a + 6 * (j - 1), abbrs)]

\* tz_abbr when the last piece is kept.
TzAbbr_NoPop(abbrs) == [some |-> TRUE, rest |-> Split(abbrs, NUL)]

\* tz_abbr after split and pop, and whether pop found an element.
TzAbbr(abbrs) == Pop(Split(abbrs, NUL))

\* tz after the loop `for _ in 0..(tz.len()) - 2 { tz.remove(0); }`: the last two pieces.
LastTwo(tz) == SubSeq(tz, Len(tz) - 1, Len(tz))

\* The zone name for a path of at least three pieces.
ZoneName(tz) ==
    IF LastTwo(tz)[1] # ZONEINFO
    THEN LastTwo(tz)[1] \o <<SLASH>> \o LastTwo(tz)[2]
    ELSE LastTwo(tz)[2]

\* The part of parse_data after the abbreviations are read as UTF-8.
ParseDataTail(buf, h, fname, abbrs) ==
    IF ~RangeOk(Len(buf), tzh_timecnt_end(h), tzh_typecnt_end(h)) THEN Panic(NoTz)
    ELSE IF ~TzAbbr(abbrs).some THEN Err("EmptyString", NoTz)
    ELSE IF Len(Split(fname, SLASH)) < 3 THEN Err("InvalidTimezone", NoTz)
    ELSE Ok([tzh_timecnt_data    |-> TimecntData(buf, DataStart(h), TimesEnd(h)),
             tzh_timecnt_indices |-> Slice(buf, TimesEnd(h), tzh_timecnt_end(h)),
             tzh_typecnt         |-> Typecnt(buf, tzh_timecnt_end(h), tzh_typecnt_end(h), abbrs),
             tz_abbr             |-> TzAbbr(abbrs).rest,
             name                |-> ZoneName(Split(fname, SLASH))])

\* parse_data(buffer, header, filename), in a build with (oc) or without overflow checks.
ParseDataResult(buf, h, oc, fname) ==
    IF oc /\ DataOverflows(h) THEN Panic(NoTz)
    ELSE IF ~RangeOk(Len(buf), DataStart(h), TimesEnd(h)) THEN Panic(NoTz)
    ELSE IF ~RangeOk(Len(buf), TimesEnd(h), tzh_timecnt_end(h)) THEN Panic(NoTz)
    ELSE IF ~RangeOk(Len(buf), tzh_leapcnt_end(h), tzh_charcnt_end(h)) THEN Panic(NoTz)
    ELSE IF ~Utf8Valid(Slice(buf, tzh_leapcnt_end(h), tzh_charcnt_end(h)))
         THEN Err("BadUtf8String", NoTz)
    ELSE ParseDataTail(buf, h, fname,
                       Chars(Slice(buf, tzh_leapcnt_end(h), tzh_charcnt_end(h))))

---------------------------------------------------------------------------
(* i64 values as limbs, and the chrono calls of transition_times.          *)

\* The i64 with value n, for an n that TLC can hold (-2^31 .. 2^31-1).
I64(n) ==
    IF n >= 0 THEN <<0, 0, n \div 65536, n % 65536>>
    ELSE <<-1, 65535, (((n + 2147483647) + 1) \div 65536) + 32768,
           ((n + 2147483647) + 1) % 65536>>

\* a < b on i64.
Lt64(a, b) ==
    \/ a[1] < b[1]
    \/ a[1] = b[1] /\ a[2] < b[2]
    \/ a[1] = b[1] /\ a[2] = b[2] /\ a[3] < b[3]
    \/ a[1] = b[1] /\ a[2] = b[2] /\ a[3] = b[3] /\ a[4] < b[4]

\* The timestamp the None branch skips: -576460752303423488 = 0xF800000000000000.
SENTINEL == <<-2048, 0, 0, 0>>

\* The last second chrono can represent, 262143-12-31T23:59:59Z = 8210298412799,
\* and the first, -262144-01-01T00:00:00Z = -8334632851200: Utc.timestamp(secs, 0)
\* panics outside them.
CHRONO_MAX == <<0, 1911, 39915, 40703>>
CHRONO_MIN == <<-1, 63595, 28971, 26880>>
\* A Utc.timestamp that takes every i64.
TimestampOk_Unchecked(t) == TRUE

\* Whether Utc.timestamp(t, 0) returns: it panics on a t out of chrono's range.
TimestampOk(t) == ~Lt64(t, CHRONO_MIN) /\ ~Lt64(CHRONO_MAX, t)

\* The first and the last year this model computes dates for: the years whose
\* instants fit TLC's integers.
FIRST_YEAR == 1970
LAST_YEAR == 2037

IsLeapYear(y) == (y % 4 = 0 /\ y % 100 # 0) \/ y % 400 = 0

\* Days from 1970-01-01 to January 1 of year y >= 1970.
DaysBeforeYear(y) ==
    365 * (y - 1970) + ((y - 1969) \div 4) - ((y - 1901) \div 100) + ((y - 1601) \div 400)

\* Utc.ymd(y, 1, 1).and_hms(0, 0, 0).timestamp()
YearBeg(y) == DaysBeforeYear(y) * 86400

\* Utc.ymd(y, 12, 31).and_hms(0, 0, 0).timestamp()
YearEnd(y) == YearBeg(y) + (IF IsLeapYear(y) THEN 365 ELSE 364) * 86400

\* The calendar year (UTC) of the instant secs.
YearOf(secs) ==
    CHOOSE y \in FIRST_YEAR..LAST_YEAR : YearBeg(y) <= secs /\ secs < YearBeg(y + 1)

\* d.format("%Y").to_string(): four decimal digits, as chars.
FormatYear(y) ==
    <<48 + ((y \div 1000) % 10), 48 + ((y \div 100) % 10), 48 + ((y \div 10) % 10),
      48 + (y % 10)>>

RECURSIVE ParseDigits(_, _)
\* str::parse::<i32> of a string of decimal digits, acc being the value so far.
ParseDigits(str, acc) ==
    IF str = <<>> THEN acc ELSE ParseDigits(Tail(str), acc * 10 + (Head(str) - 48))

\* The year the windowed scan uses: `if y == 0 { d.format("%Y").to_string().parse()? } else { y }`
RequestedYear(y, now) == IF y = 0 THEN ParseDigits(FormatYear(YearOf(now)), 0) ELSE y

---------------------------------------------------------------------------
(* Tz::transition_times                                                    *)

\* Option<i32>
None == [some |-> FALSE, val |-> 0]
Some(y) == [some |-> TRUE, val |-> y]

\* The indices (0-based) the year scan pushes: yearbeg < data[t] < yearend.
YearTimechanges(data, yearbeg, yearend) ==
    SelectSeq([k \in 1..Len(data) |-> k - 1],
              LAMBDA t : Lt64(yearbeg, data[t + 1]) /\ Lt64(data[t + 1], yearend))

RECURSIVE NearestFrom(_, _, _, _)
\* nearest_timechange after the scan has visited indices t .. len-1, cur being its
\* value before: every data[t] < yearbeg overwrites it.
NearestFrom(data, yearbeg, t, cur) ==
    IF t >= Len(data) THEN cur
    ELSE NearestFrom(data, yearbeg, t + 1, IF Lt64(data[t + 1], yearbeg) THEN t ELSE cur)

\* nearest_timechange after the year scan; it starts at 0.
NearestTimechange(data, yearbeg) == NearestFrom(data, yearbeg, 0, 0)

\* The indices (0-based) the None scan pushes: every timestamp but the sentinel.
AllTimechanges(data) ==
    SelectSeq([k \in 1..Len(data) |-> k - 1], LAMBDA t : data[t + 1] # SENTINEL)

\* The indices transition_times selects.
Timechanges(tz, y, now) ==
    IF y.some
    THEN YearTimechanges(tz.tzh_timecnt_data,
                         I64(YearBeg(RequestedYear(y.val, now))),
                         I64(YearEnd(RequestedYear(y.val, now))))
    ELSE AllTimechanges(tz.tzh_timecnt_data)

\* nearest_timechange when the selection is made: 0 unless the year scan moved it.
Nearest(tz, y, now) ==
    IF y.some
    THEN NearestTimechange(tz.tzh_timecnt_data, I64(YearBeg(RequestedYear(y.val, now))))
    ELSE 0

\* Whether building the TransitionTime of transition t panics: an index is out of
\* bounds, or the timestamp is out of chrono's range.
ViewPanics(tz, t) ==
    \/ t >= Len(tz.tzh_timecnt_data)
    \/ ~TimestampOk(tz.tzh_timecnt_data[t + 1])
    \/ t >= Len(tz.tzh_timecnt_indices)
    \/ tz.tzh_timecnt_indices[t + 1] >= Len(tz.tzh_typecnt)
    \/ tz.tzh_typecnt[tz.tzh_timecnt_indices[t + 1] + 1].tt_abbrind >= Len(tz.tz_abbr)

\* A TransitionTime that takes its offset from the first local-time type.
View_OffsetOfFirstType(tz, t) ==
    LET tt == tz.tzh_typecnt[tz.tzh_timecnt_indices[t + 1] + 1]
    IN  [time         |-> tz.tzh_timecnt_data[t + 1],
         utc_offset   |-> tz.tzh_typecnt[1].tt_gmtoff,
         isdst        |-> (tt.tt_isdst = 1),
         abbreviation |-> tz.tz_abbr[tt.tt_abbrind + 1]]

\* The TransitionTime of transition t (0-based).
View(tz, t) ==
    LET tt == tz.tzh_typecnt[tz.tzh_timecnt_indices[t + 1] + 1]
    IN  [time         |-> tz.tzh_timecnt_data[t + 1],
         utc_offset   |-> tt.tt_gmtoff,
         isdst        |-> (tt.tt_isdst = 1),
         abbreviation |-> tz.tz_abbr[tt.tt_abbrind + 1]]

\* A returned Vec without the nearest transition when the selection is empty.
Populated_NoFallback(tz, y, now) == Timechanges(tz, y, now)

\* The indices whose views make the returned Vec: the selection, or the nearest one.
Populated(tz, y, now) ==
    IF Len(Timechanges(tz, y, now)) # 0 THEN Timechanges(tz, y, now)
    ELSE <<Nearest(tz, y, now)>>

\* transition_times without its emptiness test.
NoTransitions_Unchecked(tz) == FALSE

\* Whether the emptiness test that opens transition_times returns NoData.
NoTransitions(tz) == Len(tz.tzh_timecnt_data) = 0

\* transition_times(y) at the instant now (seconds since the epoch).
TransitionTimesResult(tz, y, now) ==
    IF NoTransitions(tz) THEN Err("NoData", <<>>)
    ELSE IF \E k \in 1..Len(Populated(tz, y, now)) : ViewPanics(tz, Populated(tz, y, now)[k])
         THEN Panic(<<>>)
    ELSE Ok([k \in 1..Len(Populated(tz, y, now)) |-> View(tz, Populated(tz, y, now)[k])])

---------------------------------------------------------------------------
(* Tz::zoneinfo                                                            *)

\* A reading d of Utc::now() is [secs, nsecs]: whole seconds since the epoch and
\* the nanoseconds past them. A transition's time has no nanoseconds.

\* d > t, for a clock reading d and a transition's time t.
After(d, t) == Lt64(t, I64(d.secs)) \/ (t = I64(d.secs) /\ d.nsecs > 0)

\* d < t, for a clock reading d and a transition's time t.
Before(d, t) == Lt64(I64(d.secs), t)

\* Option<DateTime<Utc>>
NoTime == [some |-> FALSE, val |-> <<0, 0, 0, 0>>]
SomeTime(t) == [some |-> TRUE, val |-> t]

\* The seconds of a day; FixedOffset::east(secs) panics unless -86400 < secs < 86400.
DAY == 86400
EastPanics(secs) == secs <= -DAY \/ secs >= DAY

\* d.with_timezone(&utc_offset): the same instant, read at the offset.
WithTimezone(d, offset) == [datetime |-> d, offset |-> offset]

\* The days from 1970-01-01 to the local date of a DateTime<FixedOffset>.
LocalDay(dt) == (dt.datetime.secs + dt.offset) \div DAY

\* The ISO weekday (1 = Monday .. 7 = Sunday) of day n; 1970-01-01 was a Thursday.
Weekday(n) == ((n + 3) % 7) + 1

\* The number of ISO weeks of year y: 53 when January 1 is a Thursday, or a
\* Wednesday of a leap year.
WeeksIn(y) ==
    IF Weekday(DaysBeforeYear(y)) = 4 \/ (IsLeapYear(y) /\ Weekday(DaysBeforeYear(y)) = 3)
    THEN 53 ELSE 52

\* The ISO week number of day n: the week holding the day's Thursday, counted in
\* that Thursday's year.
IsoWeek(n) ==
    LET y == YearOf(n * DAY)
        w == ((n - DaysBeforeYear(y) + 1) - Weekday(n) + 10) \div 7
    IN  IF w < 1 THEN WeeksIn(y - 1) ELSE IF w > WeeksIn(y) THEN 1 ELSE w

\* dt.format("%V").to_string(): two decimal digits, as chars.
FormatWeek(dt) == <<48 + (IsoWeek(LocalDay(dt)) \div 10), 48 + (IsoWeek(LocalDay(dt)) % 10)>>

\* The Tzinfo the three branches build: the offset chosen, the DST fields, and
\* the abbreviation; d is the clock reading of zoneinfo.
Tzinfo(tz, d, offset, from, until, dst, raw, dstoff, abbr) ==
    [timezone     |-> tz.name,
     week_number  |-> ParseDigits(FormatWeek(WithTimezone(d, offset)), 0),
     utc_datetime |-> d,
     datetime     |-> WithTimezone(d, offset),
     dst_from     |-> from,
     dst_until    |-> until,
     dst_period   |-> dst,
     raw_offset   |-> raw,
     dst_offset   |-> dstoff,
     utc_offset   |-> offset,
     abbreviation |-> abbr]

NoTzinfo ==
    [timezone |-> <<>>, week_number |-> 0, utc_datetime |-> [secs |-> 0, nsecs |-> 0],
     datetime |-> WithTimezone([secs |-> 0, nsecs |-> 0], 0), dst_from |-> NoTime,
     dst_until |-> NoTime, dst_period |-> FALSE, raw_offset |-> 0, dst_offset |-> 0,
     utc_offset |-> 0, abbreviation |-> <<>>]

\* A DST period that holds its first instant.
DstPeriod_Inclusive(p, d) == ~Before(d, p[1].time) /\ Before(d, p[2].time)

\* let dst = d > parsedtimechanges[0].time && d < parsedtimechanges[1].time;
DstPeriod(p, d) == After(d, p[1].time) /\ Before(d, p[2].time)

\* The branch of two transition times: DST observed.
TwoTimechanges(tz, p, d) ==
    LET dst == DstPeriod(p, d)
        sel == IF dst THEN p[1] ELSE p[2]
    IN  IF EastPanics(sel.utc_offset) THEN Panic(NoTzinfo)
        ELSE Ok(Tzinfo(tz, d, sel.utc_offset, SomeTime(p[1].time), SomeTime(p[2].time), dst,
                       p[2].utc_offset, p[1].utc_offset, sel.abbreviation))

\* The branch of one transition time.
OneTimechange(tz, p, d) ==
    IF EastPanics(p[1].utc_offset) THEN Panic(NoTzinfo)
    ELSE Ok(Tzinfo(tz, d, p[1].utc_offset, NoTime, NoTime, FALSE, p[1].utc_offset, 0,
                   p[1].abbreviation))

\* The branch of no transition time: the first local-time type of the zone, which
\* the indexing panics without.
NoTimechange(tz, d) ==
    IF Len(tz.tzh_typecnt) = 0 THEN Panic(NoTzinfo)
    ELSE IF EastPanics(tz.tzh_typecnt[1].tt_gmtoff) THEN Panic(NoTzinfo)
    ELSE Ok(Tzinfo(tz, d, tz.tzh_typecnt[1].tt_gmtoff, NoTime, NoTime, FALSE,
                   tz.tzh_typecnt[1].tt_gmtoff, 0, tz.name))

\* What zoneinfo makes of the outcome tt of its transition_times(Some(0)) call:
\* NoData counts as an empty Vec, any other error is returned.
ParsedTimechanges(tt) == IF tt.kind = "Ok" THEN tt.val ELSE <<>>

\* zoneinfo(), its transition_times(Some(0)) call reading the clock at now (whole
\* seconds) and zoneinfo itself reading d afterwards.
ZoneinfoResult(tz, now, d) ==
    LET tt == TransitionTimesResult(tz, Some(0), now)
        p  == ParsedTimechanges(tt)
    IN  IF tt.kind = "Panic" THEN Panic(NoTzinfo)
        ELSE IF tt.kind = "Err" /\ tt.err # "NoData" THEN Err(tt.err, NoTzinfo)
        ELSE IF Len(p) = 2 THEN TwoTimechanges(tz, p, d)
        ELSE IF Len(p) = 1 THEN OneTimechange(tz, p, d)
        ELSE IF Len(p) = 0 THEN NoTimechange(tz, d)
        ELSE Err("NoData", NoTzinfo)

---------------------------------------------------------------------------
(* The inputs: TZif files written field by field, well formed and not.     *)
(* These definitions enumerate what Tz::read may hand to the decoder; they *)
(* follow the layout the decoder reads (tzfile(5)).                        *)

\* Bounds of the enumeration.
MaxTimecnt == 2
MaxTypecnt == 2
MaxLeapcnt == 1

\* The 4 bytes of the big-endian i32 v.
I32Bytes(v) ==
    IF v >= 0
    THEN <<(v \div 16777216) % 256, (v \div 65536) % 256, (v \div 256) % 256, v % 256>>
    ELSE LET u == (v + 2147483647) + 1
         IN  <<128 + ((u \div 16777216) % 256), (u \div 65536) % 256, (u \div 256) % 256,
               u % 256>>

\* The 2 bytes of the big-endian 16-bit limb l (signed or unsigned).
LimbBytes(l) == <<((l + 65536) % 65536) \div 256, ((l + 65536) % 65536) % 256>>

\* The 8 bytes of the big-endian i64 t.
I64Bytes(t) == LimbBytes(t[1]) \o LimbBytes(t[2]) \o LimbBytes(t[3]) \o LimbBytes(t[4])

\* n bytes of value b.
Fill(n, b) == [k \in 1..n |-> b]

RECURSIVE Flatten(_)
\* The concatenation of a sequence of byte strings.
Flatten(seqs) == IF seqs = <<>> THEN <<>> ELSE Head(seqs) \o Flatten(Tail(seqs))

\* The six counts of a sub-header.
Counts(gmt, std, leap, time, type, char) ==
    [tzh_ttisgmtcnt |-> gmt, tzh_ttisstdcnt |-> std, tzh_leapcnt |-> leap,
     tzh_timecnt |-> time, tzh_typecnt |-> type, tzh_charcnt |-> char]

\* A 44-byte sub-header: magic, version, 15 reserved bytes, six counts.
SubHeader(magic, ver, c) ==
    magic \o <<ver>> \o Fill(15, 0)
        \o I32Bytes(c.tzh_ttisgmtcnt) \o I32Bytes(c.tzh_ttisstdcnt) \o I32Bytes(c.tzh_leapcnt)
        \o I32Bytes(c.tzh_timecnt) \o I32Bytes(c.tzh_typecnt) \o I32Bytes(c.tzh_charcnt)

\* One 6-byte local-time-type record.
TypeBytes(ty) == I32Bytes(ty.off) \o <<ty.isdst, ty.abbr>>

\* A whole file: first sub-header with counts c1, a version-1 block of pad bytes,
\* second sub-header with counts c2, then the five data fields and the footer.
File(magic, ver, c1, pad, c2, times, idx, types, leaps, blob) ==
    SubHeader(magic, ver, c1) \o Fill(pad, 17) \o SubHeader(magic, ver, c2)
        \o Flatten([i \in 1..Len(times) |-> I64Bytes(times[i])])
        \o idx
        \o Flatten([j \in 1..Len(types) |-> TypeBytes(types[j])])
        \o Fill(12 * leaps, 238)
        \o blob
        \o <<10, 10>>

\* "TZif", and two strings that are not the magic tag.
TZIF == <<84, 90, 105, 102>>
Magics == {TZIF, <<84, 90, 105, 103>>, <<116, 90, 105, 102>>}

\* Version bytes: NUL (version 1), '1', '2', '3'.
Versions == {0, 49, 50, 51}

\* Timestamps: 2020-03-29T01:00:00Z, 2020-10-25T01:00:00Z, the sentinel, -1.
TimeVals == <<I64(1585443600), I64(1603587600), SENTINEL, I64(-1)>>
TimePatterns == {0, 2}
TimesOf(n, p) == [i \in 1..n |-> TimeVals[((i - 1 + p) % 4) + 1]]

\* Type indices, abbreviation byte-offsets, offsets and DST flags of the records.
Patterns == {0, 1}
IdxOf(n, q) == [i \in 1..n |-> (i - 1 + q) % 3]
OffVals == <<3600, 7200, -25200>>
AbbrVals == <<0, 2, 4>>
TypesOf(t, q) ==
    [j \in 1..t |-> [off   |-> OffVals[((j - 1 + q) % 3) + 1],
                     isdst |-> (j - 1 + q) % 3,
                     abbr  |-> AbbrVals[((j - 1 + q) % 3) + 1]]]

\* Abbreviation blobs: "", "A\0", "A\0B\0", "A\0B" (unterminated), "\u{e9}\0"
\* (a two-byte char), "A\xff\0" (not UTF-8), "\0", "A\0\0".
Blobs ==
    {<<>>, <<65, 0>>, <<65, 0, 66, 0>>, <<65, 0, 66>>, <<195, 169, 0>>, <<65, 255, 0>>,
     <<0>>, <<65, 0, 0>>}

\* "/z/zoneinfo/EST", "/zoneinfo/E/P", "/zoneinfo/P", "EST"
GoodName == <<47, 122, 47, 122, 111, 110, 101, 105, 110, 102, 111, 47, 69, 83, 84>>
Filenames ==
    {GoodName,
     <<47, 122, 111, 110, 101, 105, 110, 102, 111, 47, 69, 47, 80>>,
     <<47, 122, 111, 110, 101, 105, 110, 102, 111, 47, 80>>,
     <<69, 83, 84>>}

NoCounts == Counts(0, 0, 0, 0, 0, 0)

\* The counts that describe the data fields given.
CountsOf(times, types, leaps, blob) == Counts(0, 0, leaps, Len(times), Len(types), Len(blob))

\* A file whose second sub-header describes its data, after an empty version-1 block.
PlainFile(times, idx, types, leaps, blob) ==
    File(TZIF, VERSION_2, NoCounts, 0, CountsOf(times, types, leaps, blob),
         times, idx, types, leaps, blob)

\* Every combination of field counts, with varied contents.
LayoutInputs ==
    {[buffer |-> PlainFile(TimesOf(n, p), IdxOf(n, q), TypesOf(t, q), l, blob),
      filename |-> GoodName] :
        n \in 0..MaxTimecnt, t \in 0..MaxTypecnt, l \in 0..MaxLeapcnt,
        p \in TimePatterns, q \in Patterns, blob \in Blobs}

\* The file the other families vary: one transition, one type, "A\0".
BaseFile(magic, ver, c1, pad) ==
    File(magic, ver, c1, pad, CountsOf(TimesOf(1, 0), TypesOf(1, 0), 0, <<65, 0>>),
         TimesOf(1, 0), IdxOf(1, 0), TypesOf(1, 0), 0, <<65, 0>>)

\* First sub-headers: an empty version-1 block; one of 15 bytes (1 transition,
\* 1 type, 2 chars, 1 std flag, 1 UT flag); the same block under counts that
\* hold 0xFFFFFFFC and add up to the same 15 modulo 2^64; and a transition
\* count of 0xFFFFFFFF.
FirstHeaders ==
    {[c1 |-> NoCounts, pad |-> 0],
     [c1 |-> Counts(1, 1, 0, 1, 1, 2), pad |-> 15],
     [c1 |-> Counts(1, 18, 0, 0, 0, -4), pad |-> 15],
     [c1 |-> Counts(0, 0, 0, -1, 0, 0), pad |-> 15]}

\* Every magic, version and first sub-header, whole and cut to 44 bytes.
FramingInputs ==
    {[buffer |-> Take(BaseFile(m, v, f.c1, f.pad), cut), filename |-> GoodName] :
        m \in Magics, v \in Versions, f \in FirstHeaders, cut \in {HEADER_LEN, 1000}}

\* Every proper prefix of two well-formed files.
TruncatedInputs ==
    {[buffer |-> Take(BaseFile(TZIF, VERSION_2, f.c1, f.pad), cut), filename |-> GoodName] :
        f \in {[c1 |-> NoCounts, pad |-> 0], [c1 |-> Counts(1, 1, 0, 1, 1, 2), pad |-> 15]},
        cut \in 0..(Len(BaseFile(TZIF, VERSION_2, NoCounts, 15)) - 1)}

\* Every file name.
NameInputs ==
    {[buffer |-> BaseFile(TZIF, VERSION_2, NoCounts, 0), filename |-> fname] :
        fname \in Filenames}

\* The smallest i64, -2^63.
I64_MIN == <<-32768, 0, 0, 0>>

\* Transition tables around the year 2020: 2019-10-27T01:00:00Z, 2020-03-29T01:00:00Z,
\* 2020-05-20T18:40:00Z, 2020-10-25T01:00:00Z, the first second of the year, the
\* first second of its December 31 and the second an hour later, the sentinel
\* and the smallest i64.
QueryTimes ==
    {<<>>,
     <<I64(1585443600), I64(1603587600)>>,
     <<I64(1572138000), I64(1585443600), I64(1603587600)>>,
     <<I64(1585443600), I64(1590000000), I64(1603587600)>>,
     <<I64(YearBeg(2020)), I64(1585443600)>>,
     <<I64(1603587600), I64(YearEnd(2020))>>,
     <<I64(1603587600), I64(YearEnd(2020) + 3600)>>,
     <<I64(1572138000), I64(YearEnd(2020) + 3600)>>,
     <<I64(1572138000)>>,
     <<I64(YearEnd(2020) + 3600)>>,
     <<SENTINEL>>,
     <<SENTINEL, I64(1585443600)>>,
     <<SENTINEL, I64(YearEnd(2020) + 3600)>>,
     <<I64_MIN, I64(1585443600)>>}

\* Type indices of a table of n transitions: alternately DST and standard time,
\* the first one DST (pattern 0) or standard (pattern 1); or all the index 2,
\* which no type of the family has (pattern 2).
QueryPatterns == {0, 1, 2}
QueryIdx(n, q) == [i \in 1..n |-> IF q = 2 THEN 2 ELSE (i + q) % 2]

\* The two types of the family: standard time "A" at the offset off, and
\* daylight saving time "B" at +02:00. An offset of 25 hours is within the range
\* RFC 8536 allows (-89999 .. 93599).
QueryOffsets == {3600, 90000}
QueryTypes(off) ==
    <<[off |-> off, isdst |-> 0, abbr |-> 0], [off |-> 7200, isdst |-> 1, abbr |-> 2]>>

\* Zones to query: every table, index pattern and standard offset.
QueryInputs ==
    {[buffer |-> PlainFile(times, QueryIdx(Len(times), q), QueryTypes(off), 0,
                           <<65, 0, 66, 0>>),
      filename |-> GoodName] :
        times \in QueryTimes, q \in QueryPatterns, off \in QueryOffsets}

\* Files whose second sub-header holds a count with its top bit set: a character
\* count of 0xFFFFFFFC, a transition count of 0xFFFFFFFF.
SignedCountInputs ==
    {[buffer |-> File(TZIF, VERSION_2, NoCounts, 0, c2, TimesOf(1, 0), IdxOf(1, 0),
                      TypesOf(1, 0), 0, <<65, 0>>),
      filename |-> GoodName] :
        c2 \in {Counts(0, 0, 0, 1, 1, -4), Counts(0, 0, 0, -1, 1, 2)}}

Inputs ==
    LayoutInputs \cup FramingInputs \cup TruncatedInputs \cup NameInputs \cup QueryInputs
        \cup SignedCountInputs

\* The seconds the clock is read at: 2020-03-29T01:00:00Z, 2020-07-01T00:00:00Z,
\* 2020-10-25T01:00:00Z and 2021-02-01T00:00:00Z.
NowVals == {1585443600, 1593561600, 1603587600, 1612137600}

\* The readings of Utc::now(): on the second, and half a second past it.
Readings == {[secs |-> s, nsecs |-> n] : s \in NowVals, n \in {0, 500000000}}

\* The year arguments transition_times is called with.
YearArgs == {None, Some(0), Some(2020), Some(2021)}

---------------------------------------------------------------------------
(* The state machine: Tz::new(filename), then queries on the decoded zone. *)

NoQuery == [called |-> FALSE, y |-> None, now |-> 0, res |-> Running(<<>>)]
NoInfo ==
    [called |-> FALSE, now |-> 0, d |-> [secs |-> 0, nsecs |-> 0], res |-> Running(NoTzinfo)]

Init ==
    /\ \E inp \in Inputs : buffer = inp.buffer /\ filename = inp.filename
    /\ overflow_checks \in BOOLEAN
    /\ pc = "parse_header"
    /\ header = NoHeader
    /\ result = Running(NoTz)
    /\ query = NoQuery
    /\ info = NoInfo

\* let header = Tz::parse_header(&buf)?;
ParseHeader ==
    /\ pc = "parse_header"
    /\ LET r == ParseHeaderResult(buffer, overflow_checks)
       IN  IF r.kind = "Ok"
           THEN /\ header' = r.val
                /\ pc' = "parse_data"
                /\ UNCHANGED result
           ELSE /\ result' = [r EXCEPT !.val = NoTz]
                /\ pc' = "done"
                /\ UNCHANGED header
    /\ UNCHANGED <<buffer, filename, overflow_checks, query, info>>

\* Tz::parse_data(&buf, header, tz)
ParseData ==
    /\ pc = "parse_data"
    /\ result' = ParseDataResult(buffer, header, overflow_checks, filename)
    /\ pc' = "done"
    /\ UNCHANGED <<buffer, filename, overflow_checks, header, query, info>>

\* A run makes one call on the zone Tz::new returned: the zone is immutable, so
\* the outcome of a call does not depend on the calls before it.
NotCalled == ~query.called /\ ~info.called

\* tz.transition_times(y) on the zone Tz::new returned, at the instant now.
TransitionTimes ==
    /\ pc = "done"
    /\ result.kind = "Ok"
    /\ NotCalled
    /\ \E y \in YearArgs, now \in NowVals :
           query' = [called |-> TRUE, y |-> y, now |-> now,
                     res |-> TransitionTimesResult(result.val, y, now)]
    /\ UNCHANGED <<buffer, filename, overflow_checks, pc, header, result, info>>

\* tz.zoneinfo() on the zone Tz::new returned: its transition_times(Some(0)) call
\* reads the clock at the second now, and zoneinfo reads d after it.
Zoneinfo ==
    /\ pc = "done"
    /\ result.kind = "Ok"
    /\ NotCalled
    /\ \E now \in NowVals, d \in Readings :
           /\ d.secs >= now
           /\ info' = [called |-> TRUE, now |-> now, d |-> d,
                       res |-> ZoneinfoResult(result.val, now, d)]
    /\ UNCHANGED <<buffer, filename, overflow_checks, pc, header, result, query>>

Next == ParseHeader \/ ParseData \/ TransitionTimes \/ Zoneinfo

Spec == Init /\ [][Next]_vars

---------------------------------------------------------------------------
(* Properties.                                                             *)

\* Tz::new has returned (or panicked).
Done == pc = "done"

\* Tz::new returned Ok(tz).
Decoded == pc = "done" /\ result.kind = "Ok"
tz == result.val

\* Tz::new returned Err(e).
Failed(e) == pc = "done" /\ result.kind = "Err" /\ result.err = e

\* The first four bytes are the tag 'TZif'.
HasMagic == Len(buffer) >= 4 /\ SubSeq(buffer, 1, 4) = TZIF

\* parse_header returned a header, which the state then holds.
HeaderRead == pc = "parse_data" \/ (pc = "done" /\ header # NoHeader)

\* The byte offset that follows the second sub-header, and the counts, of the
\* authoritative header.
base == header.v2_header_start + 44
nTimes == header.tzh_timecnt
nTypes == header.tzh_typecnt
nLeaps == header.tzh_leapcnt
nChars == header.tzh_charcnt

\* The abbreviation blob of the file, where the format puts it.
BlobStart == base + 9 * nTimes + 6 * nTypes + 12 * nLeaps
BlobInBounds == nChars >= 0 /\ BlobStart >= 0 /\ BlobStart + nChars <= Len(buffer)
Blob == SubSeq(buffer, BlobStart + 1, BlobStart + nChars)

(* C1: decoding never crashes on a short buffer: a buffer shorter than 44      *)
(* bytes, shorter than v2Start + 44, or shorter than the end of the            *)
(* abbreviation blob makes Tz::new return an error value, never panic.         *)
C1_TooShort ==
    \/ Len(buffer) < HEADER_LEN
    \/ HasMagic /\ buffer[5] = VERSION_2
          /\ Len(buffer) < V2Start(ReadCounts(buffer, 0)) + HEADER_LEN
    \/ HeaderRead /\ Len(buffer) < BlobStart + nChars
C1_ShortBufferIsError == (Done /\ C1_TooShort) => result.kind = "Err"

(* C2: a buffer of at least 44 bytes whose first four bytes are not 'TZif'     *)
(* fails with InvalidMagic, whatever its version byte and the rest hold.       *)
C2_BadMagicIsInvalidMagic ==
    (Done /\ Len(buffer) >= HEADER_LEN /\ ~HasMagic) => Failed("InvalidMagic")
C2_Witness ==
    /\ Len(buffer) >= HEADER_LEN /\ ~HasMagic /\ buffer[5] # VERSION_2
    /\ SubSeq(buffer, 1, 2) = SubSeq(TZIF, 1, 2)
    /\ Failed("InvalidMagic")

(* C3, as claimed: with a valid magic tag, the version check passes when the   *)
(* byte at offset 4 is '2' or '3' and fails with UnsupportedFormat otherwise.  *)
C3_V2OrV3Accepted ==
    (Done /\ HasMagic /\ Len(buffer) >= 5)
        => (buffer[5] \in {50, 51} <=> ~Failed("UnsupportedFormat"))

(* C3, amended: with a valid magic tag, the version check passes only when     *)
(* the byte at offset 4 is '2'; every other value, '3' included, fails with    *)
(* UnsupportedFormat.                                                          *)
C3_OnlyV2Accepted ==
    (Done /\ HasMagic /\ Len(buffer) >= 5)
        => (buffer[5] = 50 <=> ~Failed("UnsupportedFormat"))
C3_Witness == HasMagic /\ Len(buffer) >= HEADER_LEN /\ buffer[5] = 51 /\ Failed("UnsupportedFormat")

(* C4: in a decoded zone, timestamp i is the big-endian i64 at base + 8i, type *)
(* index i the byte at base + 8n + i, type j's offset the big-endian i32 at    *)
(* base + 9n + 6j and its DST flag the byte at base + 9n + 6j + 4, and the     *)
(* abbreviations come from the charCount bytes at                              *)
(* base + 9n + 6*typeCount + 12*leapCount; file order is kept.                 *)
C4_FieldLayout ==
    Decoded =>
        /\ Len(tz.tzh_timecnt_data) = nTimes
        /\ Len(tz.tzh_timecnt_indices) = nTimes
        /\ Len(tz.tzh_typecnt) = nTypes
        /\ \A i \in 0..(nTimes - 1) :
              /\ I64Bytes(tz.tzh_timecnt_data[i + 1])
                     = SubSeq(buffer, base + 8 * i + 1, base + 8 * i + 8)
              /\ tz.tzh_timecnt_indices[i + 1] = buffer[base + 8 * nTimes + i + 1]
        /\ \A j \in 0..(nTypes - 1) :
              /\ I32Bytes(tz.tzh_typecnt[j + 1].tt_gmtoff)
                     = SubSeq(buffer, base + 9 * nTimes + 6 * j + 1,
                              base + 9 * nTimes + 6 * j + 4)
              /\ tz.tzh_typecnt[j + 1].tt_isdst = buffer[base + 9 * nTimes + 6 * j + 4 + 1]
        /\ BlobInBounds /\ Utf8Valid(Blob)
        /\ tz.tz_abbr = Pop(Split(Chars(Blob), NUL)).rest
C4_Witness ==
    /\ Decoded /\ nTimes = 2 /\ nTypes = 2 /\ nLeaps = 1 /\ nChars = 4
    /\ tz.tzh_timecnt_data = <<SENTINEL, I64(-1)>>
    /\ tz.tzh_timecnt_indices = <<1, 2>>
    /\ tz.tzh_typecnt[2].tt_gmtoff = -25200
    /\ tz.tz_abbr = <<(<<65>>), (<<66>>)>>

(* C5: when the abbreviation blob is valid UTF-8 and ends with a NUL, the      *)
(* decoded abbreviation list is the blob's NUL-delimited segments in order,    *)
(* without the empty one after the last NUL; it has as many elements as the    *)
(* blob has NUL bytes.                                                         *)
C5_AbbreviationsAreSegments ==
    (Decoded /\ BlobInBounds /\ Utf8Valid(Blob) /\ Blob # <<>> /\ Blob[Len(Blob)] = NUL)
        => /\ Len(tz.tz_abbr) = CountOf(Blob, NUL)
           /\ \A k \in 1..Len(tz.tz_abbr) : CountOf(tz.tz_abbr[k], NUL) = 0
           /\ Flatten([k \in 1..Len(tz.tz_abbr) |-> tz.tz_abbr[k] \o <<NUL>>]) = Chars(Blob)
C5_Witness ==
    /\ Decoded /\ Blob = <<65, 0, 0>> /\ tz.tz_abbr = <<(<<65>>), <<>> >>

(* C6: a blob that does not end with a NUL (an empty blob included) makes      *)
(* decoding fail with EmptyString; it never succeeds while dropping the last,  *)
(* unterminated abbreviation.                                                  *)
C6_UnterminatedIsEmptyString ==
    (Done /\ HeaderRead /\ BlobInBounds /\ Utf8Valid(Blob)
          /\ (Blob = <<>> \/ Blob[Len(Blob)] # NUL))
        => Failed("EmptyString")

(* C7: in a decoded zone every local-time type's abbreviation index is below   *)
(* the length of the abbreviation list, whatever byte-offset the file stores.  *)
C7_AbbrIndexInRange ==
    Decoded =>
        \A j \in 1..Len(tz.tzh_typecnt) : tz.tzh_typecnt[j].tt_abbrind < Len(tz.tz_abbr)

(* C8: in a decoded zone every transition's type index is below the number of  *)
(* local-time types.                                                           *)
C8_TypeIndexInRange ==
    Decoded =>
        \A i \in 1..Len(tz.tzh_timecnt_indices) :
            tz.tzh_timecnt_indices[i] < Len(tz.tzh_typecnt)

(* C9: a decoded zone has at least one local-time type.                        *)
C9_AtLeastOneType == Decoded => Len(tz.tzh_typecnt) >= 1

(* C10: on a zone with no transition, transition_times fails with NoData for   *)
(* every year argument, before any scan or index access.                       *)
C10_EmptyZoneIsNoData ==
    (query.called /\ Len(tz.tzh_timecnt_data) = 0)
        => (query.res.kind = "Err" /\ query.res.err = "NoData")
C10_Witness ==
    /\ query.called /\ query.y = Some(0)
    /\ tz.tzh_timecnt_data = <<>> /\ tz.tzh_typecnt = <<>>
    /\ query.res.kind = "Err" /\ query.res.err = "NoData"

---------------------------------------------------------------------------
(* Properties of the queries.                                              *)

\* The transition timestamps of the decoded zone, and their indices in file order.
TzTimes == tz.tzh_timecnt_data
TzIndices == [k \in 1..Len(TzTimes) |-> k - 1]

\* The transition_times call returned exactly the views of the transitions sel,
\* in that order.
Returns(sel) ==
    /\ query.res.kind = "Ok"
    /\ Len(query.res.val) = Len(sel)
    /\ \A k \in 1..Len(sel) :
          ~ViewPanics(tz, sel[k]) /\ query.res.val[k] = View(tz, sel[k])

\* The transitions whose timestamp is not the smallest i64.
NotMinimum == SelectSeq(TzIndices, LAMBDA t : TzTimes[t + 1] # I64_MIN)

(* C11: on a zone with at least one transition, transition_times(None)         *)
(* returns, in file order, exactly the views of the transitions whose raw      *)
(* timestamp differs from -2^63; that value is always filtered out and no      *)
(* other value is.                                                             *)
C11_MinimumIsFiltered ==
    (query.called /\ ~query.y.some /\ Len(TzTimes) >= 1) => Returns(NotMinimum)

\* The transitions strictly between January 1 00:00:00 and December 31 00:00:00
\* UTC of year y.
InWindow(y) ==
    SelectSeq(TzIndices,
              LAMBDA t : /\ Lt64(I64(YearBeg(y)), TzTimes[t + 1])
                         /\ Lt64(TzTimes[t + 1], I64(YearEnd(y))))

(* C12: for a year y other than 0 and a zone with a transition strictly        *)
(* between January 1 00:00:00 and December 31 00:00:00 UTC of y,               *)
(* transition_times(Some(y)) returns exactly the views of the transitions      *)
(* strictly between the two, in file order: one at exactly either instant, or  *)
(* later on December 31, is not in the result.                                 *)
C12_WindowIsStrict ==
    (query.called /\ query.y.some /\ query.y.val # 0 /\ Len(InWindow(query.y.val)) >= 1)
        => Returns(InWindow(query.y.val))

\* The transitions of calendar year y: from January 1 00:00:00 through
\* December 31 23:59:59 UTC.
InYear(y) ==
    SelectSeq(TzIndices,
              LAMBDA t : /\ ~Lt64(TzTimes[t + 1], I64(YearBeg(y)))
                         /\ Lt64(TzTimes[t + 1], I64(YearBeg(y + 1))))

\* The year a transition_times(Some(..)) call is about.
QueryYear == RequestedYear(query.y.val, query.now)

\* The time of some returned view is the timestamp of transition t.
Appears(t) == \E j \in 1..Len(query.res.val) : query.res.val[j].time = TzTimes[t + 1]

\* The result is one view, of a transition outside the calendar year asked for.
CarriedForward ==
    /\ Len(query.res.val) = 1
    /\ \A k \in 1..Len(InYear(QueryYear)) :
          query.res.val[1].time # TzTimes[InYear(QueryYear)[k] + 1]

(* C13: transition_times(Some(y)) returns the year's transition times: every   *)
(* transition within calendar year y (January 1 00:00:00 through December 31   *)
(* 23:59:59 UTC) appears in the result, and when the result is the single      *)
(* carried-forward entry, no transition of the zone falls within year y.       *)
C13_YearsTransitionTimes ==
    (query.called /\ query.y.some /\ query.res.kind = "Ok")
        => /\ \A k \in 1..Len(InYear(QueryYear)) : Appears(InYear(QueryYear)[k])
           /\ CarriedForward => InYear(QueryYear) = <<>>

\* The highest index whose instant is before January 1 00:00:00 UTC of year y;
\* index 0 when there is none.
LastBefore(y) ==
    IF \E t \in 0..(Len(TzTimes) - 1) : Lt64(TzTimes[t + 1], I64(YearBeg(y)))
    THEN CHOOSE t \in 0..(Len(TzTimes) - 1) :
             /\ Lt64(TzTimes[t + 1], I64(YearBeg(y)))
             /\ \A u \in 0..(Len(TzTimes) - 1) :
                   Lt64(TzTimes[u + 1], I64(YearBeg(y))) => u <= t
    ELSE 0

(* C14: for a year y other than 0 and a zone with at least one transition but  *)
(* none strictly inside the year window, transition_times(Some(y)) returns     *)
(* exactly one view, of the transition at the highest index whose instant is   *)
(* before the year's beginning, or of the transition at index 0 when there is  *)
(* none.                                                                       *)
C14_LastBeforeTheYear ==
    (query.called /\ query.y.some /\ query.y.val # 0 /\ Len(TzTimes) >= 1
          /\ Len(InWindow(query.y.val)) = 0)
        => Returns(<<LastBefore(query.y.val)>>)

\* What transition_times(Some(0)) returns at the instant zoneinfo calls it.
CurrentYear == TransitionTimesResult(tz, Some(0), info.now)

\* CurrentYear is exactly n views.
CurrentViews(n) == CurrentYear.kind = "Ok" /\ Len(CurrentYear.val) = n

\* The Tzinfo zoneinfo returned, when it returned one.
tzinfo == info.res.val

(* C15: when transition_times(Some(0)) returns exactly two views t0, t1,       *)
(* zoneinfo returns Ok with dst_period = (t0.time < now < t1.time),            *)
(* dst_offset = t0.utc_offset, raw_offset = t1.utc_offset,                     *)
(* dst_from = Some(t0.time), dst_until = Some(t1.time), and the utc_offset and *)
(* abbreviation of t0 when dst_period is true, of t1 otherwise.                *)
C15_TwoViews ==
    (info.called /\ CurrentViews(2)) =>
        LET t0 == CurrentYear.val[1]
            t1 == CurrentYear.val[2]
        IN  /\ info.res.kind = "Ok"
            /\ tzinfo.dst_period = (After(info.d, t0.time) /\ Before(info.d, t1.time))
            /\ tzinfo.dst_offset = t0.utc_offset
            /\ tzinfo.raw_offset = t1.utc_offset
            /\ tzinfo.dst_from = SomeTime(t0.time)
            /\ tzinfo.dst_until = SomeTime(t1.time)
            /\ tzinfo.utc_offset = (IF tzinfo.dst_period THEN t0 ELSE t1).utc_offset
            /\ tzinfo.abbreviation = (IF tzinfo.dst_period THEN t0 ELSE t1).abbreviation

(* C16: whenever zoneinfo reports dst_period = true, the offset and the        *)
(* abbreviation it selects are those of a transition to daylight saving time   *)
(* (isdst = true), dst_offset is the offset of that transition and raw_offset  *)
(* the offset of a transition to standard time, whichever of the year's two    *)
(* transitions starts daylight saving time.                                    *)
C16_DstPeriodSelectsDst ==
    (info.called /\ info.res.kind = "Ok" /\ tzinfo.dst_period) =>
        /\ \E k \in 1..Len(CurrentYear.val) :
              /\ CurrentYear.val[k].isdst
              /\ CurrentYear.val[k].utc_offset = tzinfo.utc_offset
              /\ CurrentYear.val[k].abbreviation = tzinfo.abbreviation
              /\ CurrentYear.val[k].utc_offset = tzinfo.dst_offset
        /\ \E k \in 1..Len(CurrentYear.val) :
              /\ ~CurrentYear.val[k].isdst
              /\ CurrentYear.val[k].utc_offset = tzinfo.raw_offset

(* C17: when transition_times(Some(0)) returns exactly one view t0, zoneinfo   *)
(* returns Ok with raw_offset = t0.utc_offset, dst_offset = 0,                 *)
(* dst_period = false, dst_from = dst_until = None, and the utc_offset and     *)
(* abbreviation of t0, whatever its isdst flag.                                *)
C17_OneView ==
    (info.called /\ CurrentViews(1)) =>
        /\ info.res.kind = "Ok"
        /\ tzinfo.raw_offset = CurrentYear.val[1].utc_offset
        /\ tzinfo.dst_offset = 0
        /\ tzinfo.dst_period = FALSE
        /\ tzinfo.dst_from = NoTime
        /\ tzinfo.dst_until = NoTime
        /\ tzinfo.utc_offset = CurrentYear.val[1].utc_offset
        /\ tzinfo.abbreviation = CurrentYear.val[1].abbreviation

(* C18: on a zone with no transition and at least one local-time type,         *)
(* zoneinfo does not propagate the NoData of transition_times: it returns Ok   *)
(* with raw_offset = the offset of type 0, dst_offset = 0, dst_period = false  *)
(* and dst_from = dst_until = None.                                            *)
C18_NoTransitionIsFixedOffset ==
    (info.called /\ Len(TzTimes) = 0 /\ Len(tz.tzh_typecnt) >= 1) =>
        /\ info.res.kind = "Ok"
        /\ tzinfo.raw_offset = tz.tzh_typecnt[1].tt_gmtoff
        /\ tzinfo.dst_offset = 0
        /\ tzinfo.dst_period = FALSE
        /\ tzinfo.dst_from = NoTime
        /\ tzinfo.dst_until = NoTime

(* C19: when the window of the current year holds three transitions or more,   *)
(* zoneinfo fails with NoData.                                                 *)
C19_ThreeOrMoreIsNoData ==
    (info.called /\ Len(InWindow(YearOf(info.now))) >= 3)
        => (info.res.kind = "Err" /\ info.res.err = "NoData")

---------------------------------------------------------------------------
(* Properties of the header.                                               *)

\* The 4-byte count at byte offset o of the buffer, for a count below 2^31.
CountAt(o) ==
    ((buffer[o + 1] * 256 + buffer[o + 2]) * 256 + buffer[o + 3]) * 256 + buffer[o + 4]

\* The six counts of the first sub-header are below 2^31.
FirstCountsSmall == \A k \in 0..5 : buffer[20 + 4 * k + 1] < 128

\* Where the formula puts the second sub-header, from the counts at 20 .. 43.
FormulaStart ==
    CountAt(32) * 5 + CountAt(36) * 6 + CountAt(28) * 8 + CountAt(40) + CountAt(24)
        + CountAt(20) + 44

\* A buffer that holds the tag, version '2', a first sub-header and, where the
\* formula puts it, a second one.
WellFormedHeaders ==
    /\ Len(buffer) >= HEADER_LEN /\ HasMagic /\ buffer[5] = VERSION_2
    /\ FirstCountsSmall
    /\ Len(buffer) >= FormulaStart + HEADER_LEN

(* C20: for every well-formed buffer, parse_header returns v2_header_start =   *)
(* timecnt*5 + typecnt*6 + leapcnt*8 + charcnt + ttisstdcnt + ttisgmtcnt + 44  *)
(* of the first sub-header's counts (offsets 20..43), and the six counts it    *)
(* returns are the fields at v2_header_start + 20 .. + 43; the counts of the   *)
(* first pass are not returned, also when the two sub-headers differ.          *)
C20_SecondHeaderIsReturned ==
    (pc # "parse_header" /\ WellFormedHeaders) =>
        /\ HeaderRead
        /\ header.v2_header_start = FormulaStart
        /\ I32Bytes(header.tzh_ttisgmtcnt) = SubSeq(buffer, FormulaStart + 21, FormulaStart + 24)
        /\ I32Bytes(header.tzh_ttisstdcnt) = SubSeq(buffer, FormulaStart + 25, FormulaStart + 28)
        /\ I32Bytes(header.tzh_leapcnt) = SubSeq(buffer, FormulaStart + 29, FormulaStart + 32)
        /\ I32Bytes(header.tzh_timecnt) = SubSeq(buffer, FormulaStart + 33, FormulaStart + 36)
        /\ I32Bytes(header.tzh_typecnt) = SubSeq(buffer, FormulaStart + 37, FormulaStart + 40)
        /\ I32Bytes(header.tzh_charcnt) = SubSeq(buffer, FormulaStart + 41, FormulaStart + 44)
C20_Witness ==
    /\ HeaderRead /\ WellFormedHeaders
    /\ CountAt(20) = 1 /\ CountAt(24) = 1 /\ CountAt(32) = 1
    /\ header.v2_header_start = 59
    /\ header.tzh_ttisgmtcnt = 0 /\ header.tzh_ttisstdcnt = 0 /\ header.tzh_timecnt = 1

\* The six counts of a header, in file order.
CountsOfHeader(c) ==
    <<c.tzh_ttisgmtcnt, c.tzh_ttisstdcnt, c.tzh_leapcnt, c.tzh_timecnt, c.tzh_typecnt,
      c.tzh_charcnt>>

\* The count field k (0..5) of the sub-header at s has its top bit set.
TopBitSet(s, k) == buffer[s + 20 + 4 * k + 1] >= 128

\* parse_header read the first sub-header's counts.
FirstPassDone ==
    pc # "parse_header" /\ Len(buffer) >= HEADER_LEN /\ HasMagic /\ buffer[5] = VERSION_2

(* C21: each of the six count fields is decoded as a big-endian unsigned       *)
(* 32-bit integer: a field with its top bit set decodes to a count in          *)
(* 2^31 .. 2^32-1, neither negative nor wrapped to 64 bits, in the first pass  *)
(* and in the second read.                                                     *)
C21_CountsAreUnsigned ==
    /\ FirstPassDone =>
          \A k \in 0..5 :
              TopBitSet(0, k) => CountsOfHeader(ReadCounts(buffer, 0))[k + 1] > 2147483647
    /\ HeaderRead =>
          \A k \in 0..5 :
              TopBitSet(header.v2_header_start, k)
                  => CountsOfHeader(header)[k + 1] > 2147483647

\* The raw abbreviation byte-offset of local-time type j (0-based), in the file.
RawAbbrOffset(j) == buffer[base + 9 * nTimes + 6 * j + 5 + 1]

(* C22: the abbreviation index of every local-time type is the number of NUL   *)
(* bytes among the first k bytes of the abbreviation blob, k being the type's  *)
(* raw byte-offset, also when the blob holds multi-byte characters; the count  *)
(* fits the u8 field.                                                          *)
C22_AbbrIndexCountsBytes ==
    Decoded =>
        \A j \in 0..(Len(tz.tzh_typecnt) - 1) :
            /\ tz.tzh_typecnt[j + 1].tt_abbrind = CountOf(Take(Blob, RawAbbrOffset(j)), NUL)
            /\ CountOf(Take(Blob, RawAbbrOffset(j)), NUL) < 256

---------------------------------------------------------------------------
(* Properties of the views and of the zone state.                          *)

\* The local-time type of transition i (0-based), and the view the join gives.
TypeOf(i) == tz.tzh_typecnt[tz.tzh_timecnt_indices[i + 1] + 1]
Projection(i) ==
    [time         |-> TzTimes[i + 1],
     utc_offset   |-> TypeOf(i).tt_gmtoff,
     isdst        |-> (TypeOf(i).tt_isdst = 1),
     abbreviation |-> tz.tz_abbr[TypeOf(i).tt_abbrind + 1]]

\* Every view returned is the projection of a transition of the zone.
ViewsProjected ==
    (query.called /\ query.res.kind = "Ok") =>
        \A k \in 1..Len(query.res.val) :
            \E i \in 0..(Len(TzTimes) - 1) :
                ~ViewPanics(tz, i) /\ query.res.val[k] = Projection(i)

(* C23: every view transition_times returns is, for a transition i, time =     *)
(* timestamps[i], utc_offset = types[indices[i]].offset, isdst =               *)
(* (types[indices[i]].dst flag = 1) and abbreviation =                         *)
(* abbreviations[types[indices[i]].abbreviation index], windowed or carried    *)
(* forward; and the call leaves the zone unchanged.                            *)
C23_ViewsAreProjections ==
    [][(query' # query) => (result' = result /\ ViewsProjected')]_vars
C23_Witness ==
    /\ query.called /\ query.y = Some(2021) /\ query.res.kind = "Ok"
    /\ Len(TzTimes) = 2 /\ Len(query.res.val) = 1
    /\ query.res.val[1].time = TzTimes[2]
    /\ tz.tzh_timecnt_indices[2] = 1
    /\ query.res.val[1].utc_offset = 7200 /\ query.res.val[1].isdst
    /\ query.res.val[1].abbreviation = <<66>>

C25_OkIsNotEmpty ==
    /\ (query.called /\ query.res.kind = "Ok") => Len(query.res.val) >= 1
    /\ (info.called /\ CurrentYear.kind # "Panic" /\ Len(ParsedTimechanges(CurrentYear)) = 0)
          => Len(TzTimes) = 0
C25_Witness ==
    /\ query.called /\ query.y = Some(2021) /\ Len(InWindow(2021)) = 0
    /\ Len(TzTimes) = 2 /\ query.res.kind = "Ok" /\ Len(query.res.val) = 1

(* C26: in every Ok result of zoneinfo, utc_offset is dst_offset when          *)
(* dst_period is true and raw_offset when it is false; dst_period = true       *)
(* implies dst_from and dst_until are Some with dst_from < now < dst_until;    *)
(* and the local datetime is the UTC datetime at the offset utc_offset.        *)
C26_OffsetsAgree ==
    (info.called /\ info.res.kind = "Ok") =>
        /\ tzinfo.utc_offset = (IF tzinfo.dst_period THEN tzinfo.dst_offset
                                ELSE tzinfo.raw_offset)
        /\ tzinfo.dst_period =>
              /\ tzinfo.dst_from.some /\ tzinfo.dst_until.some
              /\ After(tzinfo.utc_datetime, tzinfo.dst_from.val)
              /\ Before(tzinfo.utc_datetime, tzinfo.dst_until.val)
        /\ tzinfo.datetime.datetime = tzinfo.utc_datetime
        /\ tzinfo.datetime.offset = tzinfo.utc_offset
C26_Witness ==
    /\ info.called /\ info.res.kind = "Ok" /\ tzinfo.dst_period
    /\ tzinfo.dst_from.val = I64(info.d.secs) /\ info.d.nsecs > 0
    /\ tzinfo.utc_offset = tzinfo.dst_offset /\ tzinfo.dst_offset # tzinfo.raw_offset

(* C27: in every Ok result of zoneinfo the abbreviation is an element of the   *)
(* zone's abbreviation table: that of the local-time type whose offset is the  *)
(* active one, and of type 0 on a zone without transition.                     *)
C27_AbbreviationIsOfTheTable ==
    (info.called /\ info.res.kind = "Ok") =>
        /\ \E j \in 1..Len(tz.tzh_typecnt) :
              /\ tz.tzh_typecnt[j].tt_gmtoff = tzinfo.utc_offset
              /\ tz.tzh_typecnt[j].tt_abbrind < Len(tz.tz_abbr)
              /\ tz.tz_abbr[tz.tzh_typecnt[j].tt_abbrind + 1] = tzinfo.abbreviation
        /\ Len(TzTimes) = 0 =>
              /\ tz.tzh_typecnt[1].tt_abbrind < Len(tz.tz_abbr)
              /\ tz.tz_abbr[tz.tzh_typecnt[1].tt_abbrind + 1] = tzinfo.abbreviation

===========================================================================
